---- MODULE Spec2Model ----
(***************************************************************************)
(* HttpClient (src/httpclient.h, src/httpclient.cpp): a blocking wrapper   *)
(* over one libcurl easy handle, with a JSON/property-tree layer.          *)
(*                                                                         *)
(* A std::string is a sequence of one-character strings.                   *)
(*                                                                         *)
(* Spec         the request machine of one HttpClient: setAuth, clearAuth  *)
(*              and the verbs.  A verb is two steps around the blocking    *)
(*              curl_easy_perform (get, then get_return); in between the   *)
(*              transport runs the callbacks and returns a CURLcode.       *)
(* SpecHeaders  header_callback on the header lines of one response.       *)
(* SpecDjango   checkDjangoError on trees built by the caller.             *)
(* SpecHasChild ptreeHasChild on trees built by the caller.                *)
(* SpecUpload   read_callback on the body of one put, called until and     *)
(*              after the body is used up.                                 *)
(* SpecLife     construction, copying and destruction of HttpClient        *)
(*              objects and the transport handles they hold.               *)
(***************************************************************************)
EXTENDS Integers, Sequences, FiniteSets, TLC

VARIABLES
    _user_pass,   \* HttpClient::_user_pass
    _curl,        \* the options set on HttpClient::_curl
    pc,           \* "idle" | "performing" (inside curl_easy_perform)
    call,         \* the arguments of the verb call in progress
    ret,          \* the verb's local `response ret`
    curlError,    \* the verb's local `char curlError[CURL_ERROR_SIZE]`, as a C string
    up_obj,       \* put's local upload_object
    result,       \* what the last finished call gave its caller
    perform_res,  \* the verb's local `res`: what curl_easy_perform returned
    http_code,    \* the transport's CURLINFO_RESPONSE_CODE
    lastAuth,     \* history: the last setAuth/clearAuth call
    chunks,       \* history: the chunks given to write_callback for `ret`
    lines,        \* history: the raw lines given to header_callback for `ret`
    sent,         \* history: the bytes read_callback handed to the transport
    cb,           \* the last callback invocation: its size, nmemb and return value
    pt,           \* a boost::shared_ptr<ptree> handed to the static tree helpers
    query,        \* the last tree helper call and what it returned
    objects,      \* the live HttpClient objects: their _curl and _user_pass
    handles,      \* per handle curl_easy_init gave: its address, times cleaned up
    owner,        \* per handle curl_easy_init gave: the object constructed with it
    gone,         \* the objects that exist no longer (destroyed, or never built)
    life,         \* "running"; "aborted" once undefined behaviour ended the program;
                  \* "corrupt" once it went on after a use of a freed handle
    libcurl       \* the libcurl release the program is linked with at run time

clientVars == <<_user_pass, _curl, pc, call, curlError, perform_res, http_code, result, lastAuth>>
cbVars     == <<ret, up_obj, chunks, lines, sent, cb>>
treeVars   == <<pt, query>>
lifeVars   == <<objects, handles, owner, gone, life, libcurl>>
vars       == <<clientVars, cbVars, treeVars, lifeVars>>

(***************************************************************************)
(* Bounds of the model.                                                    *)
(***************************************************************************)
MaxChunks == 2      \* write_callback invocations per request
MaxLines == 1       \* header_callback invocations per request in Spec
MaxHdrLines == 2    \* header_callback invocations per response in SpecHeaders
MaxLineLen == 2     \* length of the generated header lines in SpecHeaders
MaxChildren == 4    \* children of the tree handed to the tree helpers
MaxObjects == 3     \* HttpClient objects ever created in SpecLife
MaxBodyLen == 3     \* length of the PUT body in SpecUpload
MaxNmemb == 3       \* nmemb asked of read_callback in SpecUpload (size is 1 or 2)

(***************************************************************************)
(* String literals of the source.                                          *)
(***************************************************************************)
user_agent == <<"s","o","p","n","e","t","/","0",".","1","0">>
FailedPrefix == <<"F","a","i","l","e","d"," ","t","o"," ","q","u","e","r","y","."," ","C","U","R","L"," ","e","r","r","o","r",":"," ">>
DetailSep == <<" ","D","E","T","A","I","L",":"," ">>
ContentTypePrefix == <<"C","o","n","t","e","n","t","-","T","y","p","e",":"," ">>
FormUrlEncoded == <<"a","p","p","l","i","c","a","t","i","o","n","/","x","-","w","w","w","-","f","o","r","m","-","u","r","l","e","n","c","o","d","e","d">>
StatusPrefix == <<"S","t","a","t","u","s"," ">>
WhenGetting == <<" ","w","h","e","n"," ","g","e","t","t","i","n","g"," ">>
STR_error == <<"e","r","r","o","r">>
STR_info == <<"i","n","f","o">>
STR_traceback == <<"t","r","a","c","e","b","a","c","k">>
STR_djerror == <<"d","j","e","r","r","o","r">>
STR_present == <<"p","r","e","s","e","n","t">>
STR_DELETE == <<"D","E","L","E","T","E">>

(***************************************************************************)
(* The transport (libcurl), as far as the client sees it.                  *)
(***************************************************************************)
CURLE_OK == 0
CURLE_COULDNT_CONNECT == 7
CURLE_OPERATION_TIMEDOUT == 28
CURLcodes == {CURLE_OK, CURLE_COULDNT_CONNECT, CURLE_OPERATION_TIMEDOUT}

\* The libcurl releases a build of the program may load: which one is fixed
\* when the program starts and is not the repository's choice.
LibcurlReleases == {"7.88.1", "8.19.0"}

\* The stock description of a CURLcode in a given release, for the codes the
\* transport of this model reports (CURLcodes).  The releases differ in the
\* wording of code 7.
strerror(release, errornum) ==
    CASE errornum = CURLE_OK -> <<"N","o"," ","e","r","r","o","r">>
      [] errornum = CURLE_COULDNT_CONNECT /\ release = "7.88.1" -> <<"C","o","u","l","d","n","'","t"," ","c","o","n","n","e","c","t"," ","t","o"," ","s","e","r","v","e","r">>
      [] errornum = CURLE_COULDNT_CONNECT /\ release = "8.19.0" -> <<"C","o","u","l","d"," ","n","o","t"," ","c","o","n","n","e","c","t"," ","t","o"," ","s","e","r","v","e","r">>
      [] errornum = CURLE_OPERATION_TIMEDOUT -> <<"T","i","m","e","o","u","t"," ","w","a","s"," ","r","e","a","c","h","e","d">>

\* curl_easy_strerror: the description the loaded release gives.
curl_easy_strerror(errornum) == strerror(libcurl, errornum)

\* An option of the easy handle: unset, or set to a value.
Unset == [set |-> FALSE]
Val(v) == [set |-> TRUE, val |-> v]

\* The NUL character, which a std::string may hold ("\\0" stands for it).
NUL == "\\0"
\* std::string::c_str() as libcurl reads it, a C string: the characters
\* before the first NUL.
c_str(s) ==
    IF \E i \in 1..Len(s) : s[i] = NUL
    THEN SubSeq(s, 1, (CHOOSE i \in 1..Len(s) :
                          s[i] = NUL /\ \A j \in 1..(i - 1) : s[j] # NUL) - 1)
    ELSE s

\* curl_easy_init: a handle with no option set.
curl_easy_init ==
    [ERRORBUFFER |-> Unset, HTTPAUTH |-> Unset, USERPWD |-> Unset,
     USERAGENT |-> Unset, URL |-> Unset, POST |-> Unset, POSTFIELDS |-> Unset,
     POSTFIELDSIZE |-> Unset, PUT |-> Unset, UPLOAD |-> Unset,
     READFUNCTION |-> Unset, READDATA |-> Unset, INFILESIZE |-> Unset,
     CUSTOMREQUEST |-> Unset, WRITEFUNCTION |-> Unset, WRITEDATA |-> Unset,
     HEADERFUNCTION |-> Unset, HEADERDATA |-> Unset, HTTPHEADER |-> Unset]

\* curl_easy_reset: every option of the handle back to its default.
curl_easy_reset(h) == [o \in DOMAIN h |-> Unset]

(***************************************************************************)
(* std::string helpers.  Positions are 0-based as in the source; npos is   *)
(* std::string::npos.                                                      *)
(***************************************************************************)
npos == -1

\* std::string::find_first_of with a one-character set.
find_first_of(s, c) ==
    IF \E i \in 1..Len(s) : s[i] = c
    THEN (CHOOSE i \in 1..Len(s) : s[i] = c /\ \A j \in 1..(i - 1) : s[j] # c) - 1
    ELSE npos

\* std::string::substr(pos, n) and substr(pos).
substr(s, pos, n) == SubSeq(s, pos + 1, IF pos + n > Len(s) THEN Len(s) ELSE pos + n)
substr_from(s, pos) == SubSeq(s, pos + 1, Len(s))

\* The vertical tab (0x0B); TLA+ has no escape for it, the string holds the
\* character itself.
VT == ""
\* std::isspace in the "C" locale: space, \t, \n, \v, \f, \r.
isspace(c) == c \in {" ", "\t", "\n", VT, "\f", "\r"}

\* ltrim: erase from the beginning up to the first non-space character.
ltrim(s) ==
    IF \A i \in 1..Len(s) : isspace(s[i]) THEN <<>>
    ELSE SubSeq(s, CHOOSE i \in 1..Len(s) :
                       ~isspace(s[i]) /\ \A j \in 1..(i - 1) : isspace(s[j]), Len(s))

\* rtrim: erase from behind the last non-space character to the end.
rtrim(s) ==
    IF \A i \in 1..Len(s) : isspace(s[i]) THEN <<>>
    ELSE SubSeq(s, 1, CHOOSE i \in 1..Len(s) :
                          ~isspace(s[i]) /\ \A j \in (i + 1)..Len(s) : isspace(s[j]))

trim(s) == ltrim(rtrim(s))

\* operator<<(std::ostream&, int): the decimal text of an int.
Digits == <<"0","1","2","3","4","5","6","7","8","9">>
RECURSIVE NatToStr(_)
NatToStr(n) == IF n < 10 THEN <<Digits[n + 1]>>
               ELSE NatToStr(n \div 10) \o <<Digits[(n % 10) + 1]>>
IntToStr(n) == IF n < 0 THEN <<"-">> \o NatToStr(0 - n) ELSE NatToStr(n)

(***************************************************************************)
(* HttpClient::response and its std::map of headers.                       *)
(***************************************************************************)
EmptyMap == [k \in {} |-> <<>>]
MapPut(h, k, v) == [x \in (DOMAIN h) \cup {k} |-> IF x = k THEN v ELSE h[x]]

\* `HttpClient::response ret;`: body and headers are empty, code is not
\* initialized.  Indeterminate stands for the value it then holds: any int,
\* a leftover of the stack or a register that differs from run to run.  It
\* is no number: nothing may compare it or compute with it.
Indeterminate == "indeterminate"
response == [code : {Indeterminate}, body : {<<>>}, headers : {EmptyMap}]

(***************************************************************************)
(* The libcurl callbacks.  Each returns the changed object and the value   *)
(* the callback returns to libcurl.                                        *)
(***************************************************************************)
write_callback(data, size, nmemb, r) ==
    [r |-> [r EXCEPT !.body = r.body \o SubSeq(data, 1, size * nmemb)],
     ret |-> size * nmemb]

\* header_callback splitting at the last colon of the line.
header_callback_last_colon(data, size, nmemb, r) ==
    LET header == SubSeq(data, 1, size * nmemb)
        seperator == IF \E i \in 1..Len(header) : header[i] = ":"
                     THEN (CHOOSE i \in 1..Len(header) :
                              header[i] = ":" /\ \A j \in (i + 1)..Len(header) : header[j] # ":") - 1
                     ELSE npos
    IN  IF seperator = npos
        THEN LET trimmed == trim(header)
             IN  IF Len(trimmed) = 0
                 THEN [r |-> r, ret |-> size * nmemb]
                 ELSE [r |-> [r EXCEPT !.headers = MapPut(r.headers, trimmed, STR_present)],
                       ret |-> size * nmemb]
        ELSE LET key == trim(substr(header, 0, seperator))
                 value == trim(substr_from(header, seperator + 1))
             IN  [r |-> [r EXCEPT !.headers = MapPut(r.headers, key, value)],
                  ret |-> size * nmemb]

header_callback(data, size, nmemb, r) ==
    LET header == SubSeq(data, 1, size * nmemb)
        seperator == find_first_of(header, ":")
    IN  IF seperator = npos
        THEN LET trimmed == trim(header)
             IN  IF Len(trimmed) = 0
                 THEN [r |-> r, ret |-> size * nmemb]
                 ELSE [r |-> [r EXCEPT !.headers = MapPut(r.headers, trimmed, STR_present)],
                       ret |-> size * nmemb]
        ELSE LET key == trim(substr(header, 0, seperator))
                 value == trim(substr_from(header, seperator + 1))
             IN  [r |-> [r EXCEPT !.headers = MapPut(r.headers, key, value)],
                  ret |-> size * nmemb]

\* read_callback that leaves the data pointer where it was.
read_callback_no_advance(size, nmemb, u) ==
    LET curl_size == size * nmemb
        copy_size == IF u.length < curl_size THEN u.length ELSE curl_size
    IN  [copied |-> SubSeq(u.data, 1, copy_size),
         u |-> [data |-> u.data, length |-> u.length - copy_size],
         ret |-> copy_size]

\* read_callback on upload_object u = [data, length]: data is the text from
\* the cursor on.
read_callback(size, nmemb, u) ==
    LET curl_size == size * nmemb
        copy_size == IF u.length < curl_size THEN u.length ELSE curl_size
    IN  [copied |-> SubSeq(u.data, 1, copy_size),
         u |-> [data |-> SubSeq(u.data, copy_size + 1, Len(u.data)),
                length |-> u.length - copy_size],
         ret |-> copy_size]

\* checkCurlError with `ret.body +=` for its first assignment.
checkCurlError_appending(res, curlErrorBuffer, r) ==
    IF CURLE_OK # res
    THEN [ret |-> [r EXCEPT
                     !.body = r.body \o FailedPrefix \o curl_easy_strerror(res)
                                  \o DetailSep \o curlErrorBuffer,
                     !.code = -1],
          failed |-> TRUE]
    ELSE [ret |-> r, failed |-> FALSE]

\* checkCurlError(res, curlErrorBuffer, ret): ret afterwards, and the result.
checkCurlError(res, curlErrorBuffer, r) ==
    IF CURLE_OK # res
    THEN [ret |-> [r EXCEPT
                     !.body = FailedPrefix \o curl_easy_strerror(res)
                                  \o DetailSep \o curlErrorBuffer,
                     !.code = -1],
          failed |-> TRUE]
    ELSE [ret |-> r, failed |-> FALSE]

(***************************************************************************)
(* boost::property_tree::ptree.  A node has a data string and an ordered   *)
(* list of (key, node) children; keys may repeat.  A shared_ptr<ptree> is  *)
(* null or points to a node.                                               *)
(***************************************************************************)
Leaf(d) == [data |-> d, children |-> <<>>]
EmptyPtree == Leaf(<<>>)
Pair(k, n) == [first |-> k, second |-> n]
push_back(node, k, n) == [node EXCEPT !.children = Append(node.children, Pair(k, n))]

NullPtr == [null |-> TRUE]
make_shared(node) == [null |-> FALSE, tree |-> node]

\* ptree::find(key): the position of the first child with this key, 0 for
\* not_found().
find(node, key) ==
    IF \E i \in 1..Len(node.children) : node.children[i].first = key
    THEN CHOOSE i \in 1..Len(node.children) :
             /\ node.children[i].first = key
             /\ \A j \in 1..(i - 1) : node.children[j].first # key
    ELSE 0

\* ptree::walk_path: a path is split at each '.'; the empty path is the node
\* itself.
RECURSIVE walk_path(_, _)
walk_path(node, p) ==
    IF Len(p) = 0 THEN [found |-> TRUE, node |-> node]
    ELSE LET sep == find_first_of(p, ".")
             fragment == IF sep = npos THEN p ELSE substr(p, 0, sep)
             rest == IF sep = npos THEN <<>> ELSE substr_from(p, sep + 1)
             el == find(node, fragment)
         IN  IF el = 0 THEN [found |-> FALSE]
             ELSE walk_path(node.children[el].second, rest)

get_child_optional(node, path) == walk_path(node, path)

\* ptree::put(path, value) for a path of one fragment.
ptree_put(node, key, value) ==
    LET el == find(node, key)
    IN  IF el = 0 THEN push_back(node, key, Leaf(value))
        ELSE [node EXCEPT !.children[el].second.data = value]

(***************************************************************************)
(* boost::property_tree::read_json, for JSON without \b and \u escapes.    *)
(* Positions are 1-based; a parse gives ok, the node and the position      *)
(* behind what it read.                                                    *)
(***************************************************************************)
JsonFail == [ok |-> FALSE]
is_ws(c) == c \in {" ", "\t", "\n", "\r"}
is_digit(c) == c \in {"0","1","2","3","4","5","6","7","8","9"}
At(s, i) == IF i >= 1 /\ i <= Len(s) THEN s[i] ELSE "EOF"

skip_ws(s, i) ==
    IF \E j \in i..Len(s) : ~is_ws(s[j])
    THEN CHOOSE j \in i..Len(s) : ~is_ws(s[j]) /\ \A k \in i..(j - 1) : is_ws(s[k])
    ELSE Len(s) + 1

skip_digits(s, i) ==
    IF \E j \in i..Len(s) : ~is_digit(s[j])
    THEN CHOOSE j \in i..Len(s) : ~is_digit(s[j]) /\ \A k \in i..(j - 1) : is_digit(s[k])
    ELSE Len(s) + 1

\* The characters of a string from position i (behind the opening quote).
RECURSIVE parse_string_tail(_, _, _)
parse_string_tail(s, i, acc) ==
    LET c == At(s, i)
        e == At(s, i + 1)
    IN  CASE c = "EOF" -> JsonFail
          [] c = "\"" -> [ok |-> TRUE, str |-> acc, next |-> i + 1]
          [] c = "\\" ->
                CASE e \in {"\"", "\\", "/"} -> parse_string_tail(s, i + 2, Append(acc, e))
                  [] e = "n" -> parse_string_tail(s, i + 2, Append(acc, "\n"))
                  [] e = "t" -> parse_string_tail(s, i + 2, Append(acc, "\t"))
                  [] e = "r" -> parse_string_tail(s, i + 2, Append(acc, "\r"))
                  [] e = "f" -> parse_string_tail(s, i + 2, Append(acc, "\f"))
                  [] OTHER -> JsonFail
          [] c \in {"\t", "\n", "\r", "\f"} -> JsonFail
          [] OTHER -> parse_string_tail(s, i + 1, Append(acc, c))

parse_string(s, i) ==
    LET j == skip_ws(s, i)
    IN  IF At(s, j) = "\"" THEN parse_string_tail(s, j + 1, <<>>) ELSE JsonFail

parse_number(s, i) ==
    LET a == IF At(s, i) = "-" THEN i + 1 ELSE i
        b == IF At(s, a) = "0" THEN a + 1
             ELSE IF is_digit(At(s, a)) THEN skip_digits(s, a) ELSE 0
        c == IF b = 0 THEN 0
             ELSE IF At(s, b) # "." THEN b
             ELSE IF is_digit(At(s, b + 1)) THEN skip_digits(s, b + 1) ELSE 0
        x == IF c # 0 /\ At(s, c) \in {"e", "E"}
             THEN (IF At(s, c + 1) \in {"+", "-"} THEN c + 2 ELSE c + 1) ELSE 0
        d == IF c = 0 THEN 0
             ELSE IF x = 0 THEN c
             ELSE IF is_digit(At(s, x)) THEN skip_digits(s, x) ELSE 0
    IN  IF d = 0 THEN JsonFail
        ELSE [ok |-> TRUE, node |-> Leaf(SubSeq(s, i, d - 1)), next |-> d]

parse_literal(s, i, word) ==
    IF SubSeq(s, i, i + Len(word) - 1) = word /\ i + Len(word) - 1 <= Len(s)
    THEN [ok |-> TRUE, node |-> Leaf(word), next |-> i + Len(word)]
    ELSE JsonFail

RECURSIVE parse_value(_, _)
RECURSIVE parse_members(_, _, _)
RECURSIVE parse_elements(_, _, _)

parse_object(s, i) ==
    LET k == skip_ws(s, i + 1)
    IN  IF At(s, k) = "}" THEN [ok |-> TRUE, node |-> EmptyPtree, next |-> k + 1]
        ELSE parse_members(s, k, EmptyPtree)

parse_members(s, i, acc) ==
    LET key == parse_string(s, i)
        c == IF key.ok THEN skip_ws(s, key.next) ELSE 0
        v == IF key.ok /\ At(s, c) = ":" THEN parse_value(s, c + 1) ELSE JsonFail
        d == IF v.ok THEN skip_ws(s, v.next) ELSE 0
    IN  IF ~v.ok THEN JsonFail
        ELSE IF At(s, d) = "," THEN parse_members(s, d + 1, push_back(acc, key.str, v.node))
        ELSE IF At(s, d) = "}"
             THEN [ok |-> TRUE, node |-> push_back(acc, key.str, v.node), next |-> d + 1]
        ELSE JsonFail

parse_array(s, i) ==
    LET k == skip_ws(s, i + 1)
    IN  IF At(s, k) = "]" THEN [ok |-> TRUE, node |-> EmptyPtree, next |-> k + 1]
        ELSE parse_elements(s, k, EmptyPtree)

parse_elements(s, i, acc) ==
    LET v == parse_value(s, i)
        d == IF v.ok THEN skip_ws(s, v.next) ELSE 0
    IN  IF ~v.ok THEN JsonFail
        ELSE IF At(s, d) = "," THEN parse_elements(s, d + 1, push_back(acc, <<>>, v.node))
        ELSE IF At(s, d) = "]"
             THEN [ok |-> TRUE, node |-> push_back(acc, <<>>, v.node), next |-> d + 1]
        ELSE JsonFail

parse_value(s, i) ==
    LET j == skip_ws(s, i)
        c == At(s, j)
        str == parse_string(s, j)
    IN  CASE c = "{" -> parse_object(s, j)
          [] c = "[" -> parse_array(s, j)
          [] c = "\"" -> IF str.ok
                         THEN [ok |-> TRUE, node |-> Leaf(str.str), next |-> str.next]
                         ELSE JsonFail
          [] c = "t" -> parse_literal(s, j, <<"t","r","u","e">>)
          [] c = "f" -> parse_literal(s, j, <<"f","a","l","s","e">>)
          [] c = "n" -> parse_literal(s, j, <<"n","u","l","l">>)
          [] OTHER -> parse_number(s, j)

\* read_json: one value, then nothing but whitespace.
read_json(s) ==
    LET v == parse_value(s, 1)
    IN  IF v.ok /\ skip_ws(s, v.next) > Len(s)
        THEN [ok |-> TRUE, node |-> v.node] ELSE JsonFail

(***************************************************************************)
(* The JSON layer.  A log is the sequence of LOG_ERROR lines written.      *)
(***************************************************************************)
handleNon200(r, url) == <<"When trying url [", url, "], received non-OK code ", r.code>>

\* parsePtree taking every 2xx status for success.
parsePtree_any_2xx(r, url) ==
    IF r.code < 200 \/ r.code >= 300
    THEN [kind |-> "return",
          pt |-> make_shared(ptree_put(EmptyPtree, STR_error,
                     StatusPrefix \o IntToStr(r.code) \o WhenGetting \o url)),
          read_json |-> FALSE,
          log |-> <<handleNon200(r, url)>>]
    ELSE LET parsed == read_json(r.body)
         IN  IF parsed.ok
             THEN [kind |-> "return", pt |-> make_shared(parsed.node),
                   read_json |-> TRUE, log |-> <<>>]
             ELSE [kind |-> "throw", read_json |-> TRUE,
                   log |-> << <<"error reading result of URL:", url>>,
                              <<"response is:", r.body>> >>]

\* parsePtree: returns a tree pointer, or rethrows what read_json threw.
parsePtree(r, url) ==
    IF r.code # 200
    THEN [kind |-> "return",
          pt |-> make_shared(ptree_put(EmptyPtree, STR_error,
                     StatusPrefix \o IntToStr(r.code) \o WhenGetting \o url)),
          read_json |-> FALSE,
          log |-> <<handleNon200(r, url)>>]
    ELSE LET parsed == read_json(r.body)
         IN  IF parsed.ok
             THEN [kind |-> "return", pt |-> make_shared(parsed.node),
                   read_json |-> TRUE, log |-> <<>>]
             ELSE [kind |-> "throw", read_json |-> TRUE,
                   log |-> << <<"error reading result of URL:", url>>,
                              <<"response is:", r.body>> >>]

\* ptreeHasChild(pt, childName), pt not null.
ptreeHasChild(p, childName) == get_child_optional(p.tree, childName).found

\* pt->get_child(path).get_value<std::string>()
get_value(p, path) == walk_path(p.tree, path).node.data

\* checkDjangoError looking for `djerror` before `info` and `traceback`.
checkDjangoError_djerror_first(p) ==
    IF p.null
    THEN [ret |-> TRUE, log |-> << <<"JSON Error: null property tree">> >>]
    ELSE IF ptreeHasChild(p, STR_djerror)
    THEN [ret |-> TRUE, log |-> << <<"Django error: ", get_value(p, STR_djerror)>> >>]
    ELSE IF ptreeHasChild(p, STR_info) /\ ptreeHasChild(p, STR_traceback)
    THEN [ret |-> TRUE,
          log |-> << <<"Django error: ", get_value(p, STR_info)>>,
                     <<"    traceback: ", get_value(p, STR_traceback)>> >>]
    ELSE IF ptreeHasChild(p, STR_error)
    THEN [ret |-> TRUE, log |-> << <<"HTTP Error: ", get_value(p, STR_error)>> >>]
    ELSE [ret |-> FALSE, log |-> <<>>]

\* checkDjangoError(pt): the value returned and the lines logged.
checkDjangoError(p) ==
    IF p.null
    THEN [ret |-> TRUE, log |-> << <<"JSON Error: null property tree">> >>]
    ELSE IF ptreeHasChild(p, STR_info) /\ ptreeHasChild(p, STR_traceback)
    THEN [ret |-> TRUE,
          log |-> << <<"Django error: ", get_value(p, STR_info)>>,
                     <<"    traceback: ", get_value(p, STR_traceback)>> >>]
    ELSE IF ptreeHasChild(p, STR_djerror)
    THEN [ret |-> TRUE, log |-> << <<"Django error: ", get_value(p, STR_djerror)>> >>]
    ELSE IF ptreeHasChild(p, STR_error)
    THEN [ret |-> TRUE, log |-> << <<"HTTP Error: ", get_value(p, STR_error)>> >>]
    ELSE [ret |-> FALSE, log |-> <<>>]

(***************************************************************************)
(* The verbs: the options each sets before curl_easy_perform.              *)
(***************************************************************************)
\* set_auth taking a lone ":" for no credentials.
set_auth_longer_than_colon(h, user_pass) ==
    IF Len(user_pass) > 1
    THEN [h EXCEPT !.HTTPAUTH = Val("CURLAUTH_BASIC"), !.USERPWD = Val(c_str(user_pass))]
    ELSE h

\* "set basic authentication if present"
set_auth(h, user_pass) ==
    IF Len(user_pass) > 0
    THEN [h EXCEPT !.HTTPAUTH = Val("CURLAUTH_BASIC"), !.USERPWD = Val(c_str(user_pass))]
    ELSE h

get_setopt(h, user_pass, url) ==
    [set_auth([h EXCEPT !.ERRORBUFFER = Val("curlError")], user_pass) EXCEPT
        !.USERAGENT = Val(user_agent), !.URL = Val(c_str(url)),
        !.WRITEFUNCTION = Val("write_callback"), !.WRITEDATA = Val("ret"),
        !.HEADERFUNCTION = Val("header_callback"), !.HEADERDATA = Val("ret")]

post_setopt(h, user_pass, url, ctype, data) ==
    [set_auth([h EXCEPT !.ERRORBUFFER = Val("curlError")], user_pass) EXCEPT
        !.USERAGENT = Val(user_agent), !.URL = Val(c_str(url)),
        !.POST = Val(1), !.POSTFIELDS = Val(data), !.POSTFIELDSIZE = Val(Len(data)),
        !.WRITEFUNCTION = Val("write_callback"), !.WRITEDATA = Val("ret"),
        !.HEADERFUNCTION = Val("header_callback"), !.HEADERDATA = Val("ret"),
        !.HTTPHEADER = Val(<<c_str(ContentTypePrefix \o ctype)>>)]

put_setopt(h, user_pass, url, ctype, data) ==
    [set_auth([h EXCEPT !.ERRORBUFFER = Val("curlError")], user_pass) EXCEPT
        !.USERAGENT = Val(user_agent), !.URL = Val(c_str(url)),
        !.PUT = Val(1), !.UPLOAD = Val(1),
        !.READFUNCTION = Val("read_callback"), !.READDATA = Val("up_obj"),
        !.WRITEFUNCTION = Val("write_callback"), !.WRITEDATA = Val("ret"),
        !.HEADERFUNCTION = Val("header_callback"), !.HEADERDATA = Val("ret"),
        !.INFILESIZE = Val(Len(data)),
        !.HTTPHEADER = Val(<<c_str(ContentTypePrefix \o ctype)>>)]

del_setopt(h, user_pass, url) ==
    [set_auth([h EXCEPT !.ERRORBUFFER = Val("curlError")], user_pass) EXCEPT
        !.USERAGENT = Val(user_agent), !.URL = Val(c_str(url)),
        !.CUSTOMREQUEST = Val(STR_DELETE),
        !.WRITEFUNCTION = Val("write_callback"), !.WRITEDATA = Val("ret"),
        !.HEADERFUNCTION = Val("header_callback"), !.HEADERDATA = Val("ret")]

(***************************************************************************)
(* The verbs: what each does once curl_easy_perform has returned rc, with  *)
(* the error buffer holding buf and the transport's response code being    *)
(* code.  Gives the response returned, the handle as it is left, and       *)
(* whether curl_easy_getinfo was called.                                   *)
(***************************************************************************)
\* get without the early return after checkCurlError.
get_finish_no_early_return(h, r, rc, buf, code) ==
    LET chk == checkCurlError(rc, buf, r)
    IN  [ret |-> [chk.ret EXCEPT !.code = code], curl |-> curl_easy_reset(h),
         getinfo |-> TRUE]

get_finish(h, r, rc, buf, code) ==
    LET chk == checkCurlError(rc, buf, r)
    IN  IF chk.failed
        THEN [ret |-> chk.ret, curl |-> curl_easy_reset(h), getinfo |-> FALSE]
        ELSE [ret |-> [chk.ret EXCEPT !.code = code], curl |-> curl_easy_reset(h),
              getinfo |-> TRUE]

\* post without curl_easy_reset on its success path.
post_finish_no_reset(h, r, rc, buf, code) ==
    LET chk == checkCurlError(rc, buf, r)
    IN  IF chk.failed
        THEN [ret |-> chk.ret, curl |-> curl_easy_reset(h), getinfo |-> FALSE]
        ELSE [ret |-> [chk.ret EXCEPT !.code = code], curl |-> h, getinfo |-> TRUE]

post_finish(h, r, rc, buf, code) ==
    LET chk == checkCurlError(rc, buf, r)
    IN  IF chk.failed
        THEN [ret |-> chk.ret, curl |-> curl_easy_reset(h), getinfo |-> FALSE]
        ELSE [ret |-> [chk.ret EXCEPT !.code = code], curl |-> curl_easy_reset(h),
              getinfo |-> TRUE]

put_finish(h, r, rc, buf, code) ==
    LET chk == checkCurlError(rc, buf, r)
    IN  IF chk.failed
        THEN [ret |-> chk.ret, curl |-> curl_easy_reset(h), getinfo |-> FALSE]
        ELSE [ret |-> [chk.ret EXCEPT !.code = code], curl |-> curl_easy_reset(h),
              getinfo |-> TRUE]

del_finish(h, r, rc, buf, code) ==
    LET chk == checkCurlError(rc, buf, r)
    IN  IF chk.failed
        THEN [ret |-> chk.ret, curl |-> curl_easy_reset(h), getinfo |-> FALSE]
        ELSE [ret |-> [chk.ret EXCEPT !.code = code], curl |-> curl_easy_reset(h),
              getinfo |-> TRUE]

(***************************************************************************)
(* Inputs of the request machine.                                          *)
(***************************************************************************)
Users == {<<>>, <<"u">>, <<NUL, "z">>}
Passwords == {<<>>, <<"p">>}
Urls == {<<"/","a">>, <<"/","a",NUL,"b">>}
Ctypes == {<<"t">>, <<"t",NUL,"x">>}
Datas == {<<>>, <<"a","b">>}
\* What the server may send as body chunks and header lines.
Chunks == {<<"{","\"","e","r","r","o","r","\"",":">>, <<"\"","x","\"","}">>}
MainLines == {<<"X",":"," ","a","\r","\n">>, <<"\r","\n">>}
ReadSizes == {1, 3}
\* The response codes the transport may report; 0 when no response came.
HttpCodes == {200, 204, 500}
ErrDetails == {<<>>, <<"r","e","f","u","s","e","d">>}

EmptyResponse == [code |-> 0, body |-> <<>>, headers |-> EmptyMap]
NoUpload == [data |-> <<>>, length |-> 0]
NoCall == [api |-> "none"]
NoResult == [returned |-> FALSE]
NoCb == [fn |-> "none"]
NoQuery == [fn |-> "none"]

\* The parts of the state a specification does not use stay as they are here.
TreeIdle == pt = NullPtr /\ query = NoQuery
LifeIdle == /\ objects = <<>> /\ handles = <<>> /\ owner = <<>> /\ gone = {}
            /\ life = "running" /\ libcurl \in LibcurlReleases
CbIdle == /\ ret = EmptyResponse /\ up_obj = NoUpload /\ chunks = <<>>
          /\ lines = <<>> /\ sent = <<>> /\ cb = NoCb
ClientIdle == /\ _user_pass = <<>> /\ _curl = curl_easy_init /\ pc = "idle"
              /\ call = NoCall /\ curlError = <<>> /\ perform_res = CURLE_OK
              /\ http_code = 0 /\ result = NoResult /\ lastAuth = [op |-> "none"]

Init == ClientIdle /\ CbIdle /\ TreeIdle /\ LifeIdle

(***************************************************************************)
(* Authentication.                                                         *)
(***************************************************************************)
clearAuth ==
    /\ pc = "idle"
    /\ _user_pass' = <<>>
    /\ lastAuth' = [op |-> "clearAuth"]
    /\ UNCHANGED <<_curl, pc, call, curlError, perform_res, http_code, result>>
    /\ UNCHANGED <<cbVars, treeVars, lifeVars>>

setAuth(user, password) ==
    /\ pc = "idle"
    /\ _user_pass' = user \o <<":">> \o password
    /\ lastAuth' = [op |-> "setAuth", user |-> user, password |-> password]
    /\ UNCHANGED <<_curl, pc, call, curlError, perform_res, http_code, result>>
    /\ UNCHANGED <<cbVars, treeVars, lifeVars>>

(***************************************************************************)
(* A verb up to its call of curl_easy_perform: the locals are created and  *)
(* the handle h is what the verb's setopt calls made of _curl.             *)
(***************************************************************************)
Enter(api, url, ctype, data, h, up) ==
    /\ pc = "idle"
    /\ pc' = "performing"
    /\ call' = [api |-> api, url |-> url, ctype |-> ctype, data |-> data]
    /\ _curl' = h
    /\ ret' \in response
    /\ up_obj' = up
    /\ curlError' = <<>>
    /\ chunks' = <<>> /\ lines' = <<>> /\ sent' = <<>> /\ cb' = NoCb
    /\ result' = NoResult
    /\ UNCHANGED <<_user_pass, perform_res, http_code, lastAuth, treeVars, lifeVars>>

get(url) == Enter("get", url, <<>>, <<>>, get_setopt(_curl, _user_pass, url), NoUpload)

post(url, ctype, data) ==
    Enter("post", url, ctype, data, post_setopt(_curl, _user_pass, url, ctype, data), NoUpload)

put(url, ctype, data) ==
    Enter("put", url, ctype, data, put_setopt(_curl, _user_pass, url, ctype, data),
          [data |-> data, length |-> Len(data)])

del(url) == Enter("del", url, <<>>, <<>>, del_setopt(_curl, _user_pass, url), NoUpload)

getPropertyTree(url) ==
    Enter("getPropertyTree", url, <<>>, <<>>, get_setopt(_curl, _user_pass, url), NoUpload)

postPropertyTree(url, data) ==
    Enter("postPropertyTree", url, FormUrlEncoded, data,
          post_setopt(_curl, _user_pass, url, FormUrlEncoded, data), NoUpload)

(***************************************************************************)
(* The transport inside curl_easy_perform: it runs the callbacks the       *)
(* handle names, then returns.                                             *)
(***************************************************************************)
transport_write(chunk) ==
    /\ pc = "performing"
    /\ _curl.WRITEFUNCTION = Val("write_callback")
    /\ Len(chunks) < MaxChunks
    /\ LET o == write_callback(chunk, 1, Len(chunk), ret)
       IN  /\ ret' = o.r
           /\ cb' = [fn |-> "write_callback", size |-> 1, nmemb |-> Len(chunk),
                     ret |-> o.ret]
    /\ chunks' = Append(chunks, chunk)
    /\ UNCHANGED <<clientVars, up_obj, lines, sent, treeVars, lifeVars>>

transport_header(line, size, nmemb, max) ==
    /\ pc = "performing"
    /\ _curl.HEADERFUNCTION = Val("header_callback")
    /\ Len(lines) < max
    /\ LET o == header_callback(line, size, nmemb, ret)
       IN  /\ ret' = o.r
           /\ cb' = [fn |-> "header_callback", size |-> size, nmemb |-> nmemb,
                     ret |-> o.ret]
    /\ lines' = Append(lines, line)
    /\ UNCHANGED <<clientVars, up_obj, chunks, sent, treeVars, lifeVars>>

transport_read(size, nmemb) ==
    /\ pc = "performing"
    /\ _curl.READFUNCTION = Val("read_callback")
    /\ LET o == read_callback(size, nmemb, up_obj)
       IN  /\ up_obj' = o.u
           /\ sent' = sent \o o.copied
           /\ cb' = [fn |-> "read_callback", size |-> size, nmemb |-> nmemb,
                     ret |-> o.ret, before |-> up_obj.length]
    /\ UNCHANGED <<clientVars, ret, chunks, lines, treeVars, lifeVars>>

\* curl_easy_perform returns rc; on failure the error buffer holds detail.
\* code is the response code the transport has for CURLINFO_RESPONSE_CODE.
curl_easy_perform(rc, detail, code) ==
    /\ pc = "performing"
    /\ pc' = "performed"
    /\ perform_res' = rc
    /\ curlError' = detail
    /\ http_code' = code
    /\ UNCHANGED <<_user_pass, _curl, call, result, lastAuth>>
    /\ UNCHANGED <<cbVars, treeVars, lifeVars>>

(***************************************************************************)
(* A verb from curl_easy_perform's return to its own.                      *)
(***************************************************************************)
Leave(f, out) ==
    /\ pc = "performed"
    /\ pc' = "idle"
    /\ _curl' = f.curl
    /\ result' = [returned |-> TRUE, api |-> call.api, url |-> call.url,
                  response |-> f.ret, getinfo |-> f.getinfo, out |-> out,
                  res |-> perform_res, detail |-> curlError, http_code |-> http_code,
                  delivered |-> ret.body]
    /\ call' = NoCall
    /\ curlError' = <<>> /\ perform_res' = CURLE_OK /\ http_code' = 0
    /\ ret' = EmptyResponse /\ up_obj' = NoUpload
    /\ chunks' = <<>> /\ lines' = <<>> /\ sent' = <<>> /\ cb' = NoCb
    /\ UNCHANGED <<_user_pass, lastAuth, treeVars, lifeVars>>

NoTree == [kind |-> "none"]

get_return ==
    /\ call.api = "get"
    /\ Leave(get_finish(_curl, ret, perform_res, curlError, http_code), NoTree)

post_return ==
    /\ call.api = "post"
    /\ Leave(post_finish(_curl, ret, perform_res, curlError, http_code), NoTree)

put_return ==
    /\ call.api = "put"
    /\ Leave(put_finish(_curl, ret, perform_res, curlError, http_code), NoTree)

del_return ==
    /\ call.api = "del"
    /\ Leave(del_finish(_curl, ret, perform_res, curlError, http_code), NoTree)

getPropertyTree_return ==
    /\ call.api = "getPropertyTree"
    /\ LET f == get_finish(_curl, ret, perform_res, curlError, http_code)
       IN  Leave(f, parsePtree(f.ret, call.url))

postPropertyTree_return ==
    /\ call.api = "postPropertyTree"
    /\ LET f == post_finish(_curl, ret, perform_res, curlError, http_code)
       IN  Leave(f, parsePtree(f.ret, call.url))

Next ==
    \/ clearAuth
    \/ \E user \in Users, password \in Passwords : setAuth(user, password)
    \/ \E url \in Urls : get(url)
    \/ \E url \in Urls, ctype \in Ctypes, data \in Datas : post(url, ctype, data)
    \/ \E url \in Urls, ctype \in Ctypes, data \in Datas : put(url, ctype, data)
    \/ \E url \in Urls : del(url)
    \/ \E url \in Urls : getPropertyTree(url)
    \/ \E url \in Urls, data \in Datas : postPropertyTree(url, data)
    \/ \E chunk \in Chunks : transport_write(chunk)
    \/ \E line \in MainLines : transport_header(line, 1, Len(line), MaxLines)
    \/ \E n \in ReadSizes : transport_read(1, n)
    \/ \E code \in HttpCodes : curl_easy_perform(CURLE_OK, <<>>, code)
    \/ \E rc \in CURLcodes \ {CURLE_OK}, detail \in ErrDetails, code \in {0, 200} :
           curl_easy_perform(rc, detail, code)
    \/ get_return
    \/ post_return
    \/ put_return
    \/ del_return
    \/ getPropertyTree_return
    \/ postPropertyTree_return

Spec == Init /\ [][Next]_vars

(***************************************************************************)
(* Properties of the request machine (Spec).                               *)
(***************************************************************************)
Verbs == {"get", "post", "put", "del"}
TreeCalls == {"getPropertyTree", "postPropertyTree"}
InRequest == pc \in {"performing", "performed"}
TransportFailed == result.returned /\ result.res # CURLE_OK

\* C1: when curl_easy_perform returns anything but CURLE_OK, the verb returns
\* a response (nothing is thrown) whose code is -1, curl_easy_getinfo is not
\* called, and the handle has been reset when the verb returns.
C1_FailureIsData ==
    TransportFailed =>
        /\ result.response.code = -1
        /\ ~result.getinfo
        /\ _curl = curl_easy_init
        /\ result.out.kind # "throw"

C1_Witness ==
    /\ TransportFailed
    /\ result.api = "put"
    /\ result.http_code = 200
    /\ result.delivered # <<>>

\* C2 (as amended): on a transport failure the body is exactly "Failed to
\* query. CURL error: ", the stock description, " DETAIL: " and the text of
\* the error buffer; the chunks delivered before the failure are not in it.
C2_FailureBody ==
    TransportFailed =>
        result.response.body =
            FailedPrefix \o curl_easy_strerror(result.res) \o DetailSep \o result.detail

\* C2 as claimed: the separator is ": DETAIL: ".
C2_ColonBeforeDetail ==
    TransportFailed =>
        result.response.body =
            FailedPrefix \o curl_easy_strerror(result.res) \o <<":">> \o DetailSep
                \o result.detail

C2_Witness ==
    /\ TransportFailed
    /\ result.res = CURLE_COULDNT_CONNECT
    /\ result.detail = <<"r","e","f","u","s","e","d">>
    /\ result.delivered # <<>>

\* The credential string the calls so far ask for.
ExpectedCredentials ==
    IF lastAuth.op = "setAuth" THEN lastAuth.user \o <<":">> \o lastAuth.password
    ELSE <<>>

\* The longest prefix of s that holds no NUL.
NulFree(s) == \A i \in 1..Len(s) : s[i] # NUL
UpToNul(s) ==
    LET n == CHOOSE n \in 0..Len(s) :
                 NulFree(SubSeq(s, 1, n)) /\ (n = Len(s) \/ s[n + 1] = NUL)
    IN  SubSeq(s, 1, n)

\* C3: the credential string is "user:password" of the last setAuth, empty
\* after clearAuth or before any setAuth, whatever verbs ran since; a request
\* is configured with basic authentication and that string up to its first
\* NUL (all of it when it holds none) in the first case and with no
\* authentication in the second.
C3_CredentialsAsCString ==
    /\ _user_pass = ExpectedCredentials
    /\ InRequest =>
          IF lastAuth.op = "setAuth"
          THEN /\ _curl.HTTPAUTH = Val("CURLAUTH_BASIC")
               /\ _curl.USERPWD = Val(UpToNul(ExpectedCredentials))
          ELSE /\ _curl.HTTPAUTH = Unset
               /\ _curl.USERPWD = Unset

\* C3 as claimed: a request after setAuth is configured with exactly
\* "user:password".
C3_Credentials ==
    /\ _user_pass = ExpectedCredentials
    /\ InRequest =>
          IF lastAuth.op = "setAuth"
          THEN /\ _curl.HTTPAUTH = Val("CURLAUTH_BASIC")
               /\ _curl.USERPWD = Val(ExpectedCredentials)
          ELSE /\ _curl.HTTPAUTH = Unset
               /\ _curl.USERPWD = Unset

\* A del after setAuth("\0z", "p"): basic authentication with an empty string.
C3_Witness ==
    /\ pc = "performing"
    /\ call.api = "del"
    /\ lastAuth = [op |-> "setAuth", user |-> <<NUL, "z">>, password |-> <<"p">>]
    /\ _user_pass = <<NUL, "z", ":", "p">>
    /\ _curl.HTTPAUTH = Val("CURLAUTH_BASIC")
    /\ _curl.USERPWD = Val(<<>>)

\* C4: between requests the handle carries no option at all, and during a
\* request it carries exactly what that request's arguments and the
\* credential string put on a fresh handle.
FreshSetup ==
    CASE call.api \in {"get", "getPropertyTree"} ->
             get_setopt(curl_easy_init, _user_pass, call.url)
      [] call.api \in {"post", "postPropertyTree"} ->
             post_setopt(curl_easy_init, _user_pass, call.url, call.ctype, call.data)
      [] call.api = "put" ->
             put_setopt(curl_easy_init, _user_pass, call.url, call.ctype, call.data)
      [] call.api = "del" ->
             del_setopt(curl_easy_init, _user_pass, call.url)

C4_NoLeakBetweenRequests ==
    /\ pc = "idle" => _curl = curl_easy_init
    /\ InRequest => _curl = FreshSetup

C4_Witness ==
    /\ result.returned
    /\ result.api = "post"
    /\ result.res = CURLE_OK
    /\ _user_pass # <<>>
    /\ _curl.HTTPHEADER = Unset /\ _curl.USERPWD = Unset

\* C5: for a response whose code is not 200, getPropertyTree and
\* postPropertyTree return a tree whose only child is `error` with the value
\* "Status <code> when getting <url>", read_json is not called, and
\* checkDjangoError of that tree is true.
CodeText(code) ==
    CASE code = -1 -> <<"-","1">>
      [] code = 204 -> <<"2","0","4">>
      [] code = 500 -> <<"5","0","0">>

C5_Non200IsErrorTree ==
    (result.returned /\ result.api \in TreeCalls /\ result.response.code # 200) =>
        /\ result.out.kind = "return"
        /\ ~result.out.pt.null
        /\ result.out.pt.tree =
              [data |-> <<>>,
               children |-> <<[first |-> STR_error,
                               second |-> Leaf(StatusPrefix \o CodeText(result.response.code)
                                                   \o WhenGetting \o result.url)]>>]
        /\ ~result.out.read_json
        /\ checkDjangoError(result.out.pt).ret

C5_Witness ==
    /\ result.returned
    /\ result.api = "getPropertyTree"
    /\ result.response.code = 204
    /\ read_json(result.response.body).ok

\* C6: getPropertyTree and postPropertyTree return a null pointer when the
\* body of a 200 response is not JSON.
C6_NullOnParseFailure ==
    ( /\ result.returned /\ result.api \in TreeCalls
      /\ result.response.code = 200
      /\ ~read_json(result.response.body).ok ) =>
        /\ result.out.kind = "return"
        /\ result.out.pt.null

(***************************************************************************)
(* SpecHeaders: header_callback on the lines of one response.  The request *)
(* is a get inside curl_easy_perform; the transport delivers any lines.    *)
(***************************************************************************)
HdrAlphabet == {"a", ":", " "}
SampleLines ==
    {<<"X",":"," ","a",":","b","\r","\n">>,
     <<" ","X"," ",":","c","\r","\n">>,
     <<"H","T","T","P","/","1",".","1"," ","2","0","0"," ","O","K","\r","\n">>,
     <<"X",":",VT,"a",VT,"\r","\n">>,
     <<VT,"\r","\n">>,
     <<"\r","\n">>}
HdrLines == (UNION {[1..k -> HdrAlphabet] : k \in 0..MaxLineLen}) \cup SampleLines
\* The (size, nmemb) pairs that describe a buffer of n bytes.
DataSizes(n) ==
    IF n = 0 THEN {<<1, 0>>}
    ELSE {sn \in (1..n) \X (1..n) : sn[1] * sn[2] = n}

InitHeaders ==
    /\ _user_pass = <<>> /\ lastAuth = [op |-> "none"]
    /\ \E url \in Urls :
          /\ _curl = get_setopt(curl_easy_init, <<>>, url)
          /\ call = [api |-> "get", url |-> url, ctype |-> <<>>, data |-> <<>>]
    /\ pc = "performing"
    /\ curlError = <<>> /\ perform_res = CURLE_OK /\ http_code = 0
    /\ result = NoResult
    /\ ret \in response
    /\ up_obj = NoUpload /\ chunks = <<>> /\ lines = <<>> /\ sent = <<>> /\ cb = NoCb
    /\ TreeIdle /\ LifeIdle

NextHeaders ==
    \E line \in HdrLines : \E sn \in DataSizes(Len(line)) :
        transport_header(line, sn[1], sn[2], MaxHdrLines)

SpecHeaders == InitHeaders /\ [][NextHeaders]_vars

\* The rule of C10 for one line.
HasColon(line) == \E i \in 1..Len(line) : line[i] = ":"
FirstColon(line) == CHOOSE i \in 1..Len(line) : line[i] = ":" /\ \A j \in 1..(i - 1) : line[j] # ":"
Blank(s) == \A i \in 1..Len(s) : isspace(s[i])
Trimmed(s) ==
    IF Blank(s) THEN <<>>
    ELSE LET nonspace == {i \in 1..Len(s) : ~isspace(s[i])}
             lo == CHOOSE i \in nonspace : \A j \in nonspace : i <= j
             hi == CHOOSE i \in nonspace : \A j \in nonspace : i >= j
         IN  [k \in 1..(hi - lo + 1) |-> s[lo + k - 1]]

HeaderRule(h, line) ==
    IF Trimmed(line) = <<>> THEN h
    ELSE IF HasColon(line)
    THEN MapPut(h, Trimmed(SubSeq(line, 1, FirstColon(line) - 1)),
                   Trimmed(SubSeq(line, FirstColon(line) + 1, Len(line))))
    ELSE MapPut(h, Trimmed(line), STR_present)

RECURSIVE HeaderRuleAll(_, _)
HeaderRuleAll(h, ls) ==
    IF ls = <<>> THEN h ELSE HeaderRuleAll(HeaderRule(h, Head(ls)), Tail(ls))

\* C10: the header map is what the rule gives for the lines delivered, in
\* order (blank after trimming: nothing; a colon: trim(left of the first
\* colon) -> trim(right of it); else trim(line) -> "present"; a later line
\* of the same name overwrites), and header_callback returned size*nmemb.
C10_HeaderMap ==
    /\ ret.headers = HeaderRuleAll(EmptyMap, lines)
    /\ cb.fn = "header_callback" => cb.ret = cb.size * cb.nmemb

C10_Witness ==
    /\ lines = << <<" ","X"," ",":","c","\r","\n">>, <<"X",":"," ","a",":","b","\r","\n">> >>
    /\ DOMAIN ret.headers = {<<"X">>}
    /\ ret.headers[<<"X">>] = <<"a",":","b">>
    /\ cb.size = 2 /\ cb.nmemb = 4 /\ cb.ret = 8

(***************************************************************************)
(* The static tree helpers on a tree the caller built.                     *)
(***************************************************************************)
tree_push_back(key, node) ==
    /\ life = "running"
    /\ ~pt.null
    /\ Len(pt.tree.children) < MaxChildren
    /\ pt' = make_shared(push_back(pt.tree, key, node))
    /\ query' = NoQuery
    /\ UNCHANGED <<clientVars, cbVars, lifeVars>>

call_checkDjangoError ==
    /\ life = "running"
    /\ LET o == checkDjangoError(pt)
       IN  query' = [fn |-> "checkDjangoError", ret |-> o.ret, log |-> o.log]
    /\ UNCHANGED <<pt, clientVars, cbVars, lifeVars>>

\* ptreeHasChild dereferences pt unchecked: on a null pointer the behaviour
\* is undefined, the program may end there or go on with either answer.
call_ptreeHasChild(childName) ==
    /\ life = "running"
    /\ IF pt.null
       THEN \/ /\ life' = "aborted"
               /\ query' = [fn |-> "ptreeHasChild", childName |-> childName]
            \/ /\ life' = "running"
               /\ \E b \in BOOLEAN :
                     query' = [fn |-> "ptreeHasChild", childName |-> childName, ret |-> b]
       ELSE /\ query' = [fn |-> "ptreeHasChild", childName |-> childName,
                         ret |-> ptreeHasChild(pt, childName)]
            /\ life' = "running"
    /\ UNCHANGED <<pt, clientVars, cbVars, objects, handles, owner, gone, libcurl>>

InitTree ==
    /\ pt \in {NullPtr, make_shared(EmptyPtree)}
    /\ query = NoQuery
    /\ ClientIdle /\ CbIdle /\ LifeIdle

\* SpecDjango: trees of leaves under the names checkDjangoError knows.
DjangoKeys == {STR_info, STR_traceback, STR_djerror, STR_error, <<"a">>}
DjangoValues == {<<"m">>, <<"n">>}

NextDjango ==
    \/ \E key \in DjangoKeys, v \in DjangoValues : tree_push_back(key, Leaf(v))
    \/ call_checkDjangoError

SpecDjango == InitTree /\ [][NextDjango]_vars

\* SpecHasChild: trees two levels deep whose keys may hold the separator.
PathKeys == {<<"a">>, <<"b">>, <<"a",".","b">>}
PathNodes == {Leaf(<<"x">>), push_back(EmptyPtree, <<"b">>, Leaf(<<"y">>))}
PathNames == PathKeys \cup {<<"b",".","a">>}

NextHasChild ==
    \/ \E key \in PathKeys, node \in PathNodes : tree_push_back(key, node)
    \/ \E childName \in PathNames : call_ptreeHasChild(childName)

SpecHasChild == InitTree /\ [][NextHasChild]_vars

\* Whether the tree has a direct child with this key, and the data of the
\* first such child.
HasDirectChild(key) == \E i \in 1..Len(pt.tree.children) : pt.tree.children[i].first = key
FirstChildData(key) ==
    LET at == {i \in 1..Len(pt.tree.children) : pt.tree.children[i].first = key}
    IN  pt.tree.children[CHOOSE i \in at : \A j \in at : i <= j].second.data

\* C7: checkDjangoError is true for a null tree; else it reports the first of
\* (a) info and traceback, (b) djerror, (c) error that the tree has, and
\* only that one, and is true; it is false exactly when none is there.
C7_DjangoErrorOrder ==
    query.fn = "checkDjangoError" =>
        IF pt.null
        THEN query.ret /\ query.log = << <<"JSON Error: null property tree">> >>
        ELSE IF HasDirectChild(STR_info) /\ HasDirectChild(STR_traceback)
        THEN /\ query.ret
             /\ query.log = << <<"Django error: ", FirstChildData(STR_info)>>,
                               <<"    traceback: ", FirstChildData(STR_traceback)>> >>
        ELSE IF HasDirectChild(STR_djerror)
        THEN /\ query.ret
             /\ query.log = << <<"Django error: ", FirstChildData(STR_djerror)>> >>
        ELSE IF HasDirectChild(STR_error)
        THEN /\ query.ret
             /\ query.log = << <<"HTTP Error: ", FirstChildData(STR_error)>> >>
        ELSE ~query.ret /\ query.log = <<>>

C7_Witness ==
    /\ query.fn = "checkDjangoError"
    /\ ~pt.null
    /\ HasDirectChild(STR_info) /\ HasDirectChild(STR_traceback)
    /\ HasDirectChild(STR_djerror) /\ HasDirectChild(STR_error)
    /\ Len(query.log) = 2

\* C8: ptreeHasChild(tree, name) is true if and only if the tree has a direct
\* child whose key is exactly name, also for a name that holds a '.'.
C8_DirectChildOnly ==
    (query.fn = "ptreeHasChild" /\ ~pt.null) =>
        (query.ret <=> HasDirectChild(query.childName))

(***************************************************************************)
(* SpecLife: the lifetimes of HttpClient objects.  The class declares a    *)
(* constructor and a destructor and nothing else, so the compiler supplies *)
(* the memberwise copy constructor and copy assignment.  An object is its  *)
(* _curl, a raw CURL*: 0 for NULL, else the address of a handle.  Two      *)
(* pointers are the same handle when the addresses are equal, and          *)
(* curl_easy_init may give again an address that was cleaned up, whether   *)
(* or not a copy still holds it.                                           *)
(***************************************************************************)
NULL == 0
ObjIds == 1..MaxObjects
Live == DOMAIN objects
Unused == ObjIds \ (Live \cup gone)
Remove(f, x) == [y \in (DOMAIN f) \ {x} |-> f[y]]

\* The addresses the allocator has for easy handles.
Addrs == 1..MaxObjects
\* The handles curl_easy_init gave at address a, in the order it gave them.
HandlesAt(a) == {h \in 1..Len(handles) : handles[h].addr = a}
Latest(a) == CHOOSE h \in HandlesAt(a) : \A g \in HandlesAt(a) : g <= h
\* Address a holds a handle that is not cleaned up.
Allocated(a) == HandlesAt(a) # {} /\ handles[Latest(a)].cleanups = 0
\* What curl_easy_init may return, NULL aside: any address that holds no
\* handle, and any address at all once the heap is corrupt.
FreeAddrs == IF life = "running" THEN {a \in Addrs : ~Allocated(a)} ELSE Addrs

\* curl_easy_cleanup(a) frees the handle that address a holds, whichever
\* object acquired it.  When a holds none (it was cleaned up through another
\* pointer) this is a use after free: the program may abort there, or go on
\* with a heap in which nothing is certain any more.
curl_easy_cleanup(a) ==
    /\ handles' = [handles EXCEPT ![Latest(a)].cleanups = @ + 1]
    /\ IF life = "running" /\ Allocated(a)
       THEN life' = "running"
       ELSE life' \in {"corrupt", "aborted"}

\* HttpClient::HttpClient(), curl_easy_init giving the handle at address a.
construct(o, a) ==
    /\ life # "aborted"
    /\ o \in Unused
    /\ a \in FreeAddrs
    /\ objects' = (o :> [_curl |-> a]) @@ objects
    /\ handles' = Append(handles, [addr |-> a, cleanups |-> 0])
    /\ owner' = Append(owner, o)
    /\ UNCHANGED <<gone, life, libcurl, clientVars, cbVars, treeVars>>

\* HttpClient::HttpClient(), curl_easy_init giving NULL: NullPointer is thrown
\* and no object comes to exist.
construct_throws(o) ==
    /\ life # "aborted"
    /\ o \in Unused
    /\ gone' = gone \cup {o}
    /\ UNCHANGED <<objects, handles, owner, life, libcurl, clientVars, cbVars, treeVars>>

\* The implicit copy constructor: HttpClient o(p).
copy_construct(o, p) ==
    /\ life # "aborted"
    /\ o \in Unused /\ p \in Live
    /\ objects' = (o :> objects[p]) @@ objects
    /\ UNCHANGED <<handles, owner, gone, life, libcurl, clientVars, cbVars, treeVars>>

\* The implicit copy assignment: o = p.
copy_assign(o, p) ==
    /\ life # "aborted"
    /\ o \in Live /\ p \in Live
    /\ objects' = [objects EXCEPT ![o] = objects[p]]
    /\ UNCHANGED <<handles, owner, gone, life, libcurl, clientVars, cbVars, treeVars>>

\* HttpClient::~HttpClient()
destroy(o) ==
    /\ life # "aborted"
    /\ o \in Live
    /\ IF objects[o]._curl # NULL
       THEN curl_easy_cleanup(objects[o]._curl)
       ELSE UNCHANGED <<handles, life>>
    /\ objects' = Remove(objects, o)
    /\ gone' = gone \cup {o}
    /\ UNCHANGED <<owner, libcurl, clientVars, cbVars, treeVars>>

InitLife == ClientIdle /\ CbIdle /\ TreeIdle /\ LifeIdle

NextLife ==
    \/ \E o \in ObjIds, a \in Addrs : construct(o, a)
    \/ \E o \in ObjIds : construct_throws(o)
    \/ \E o \in ObjIds, p \in ObjIds : copy_construct(o, p)
    \/ \E o \in ObjIds, p \in ObjIds : copy_assign(o, p)
    \/ \E o \in ObjIds : destroy(o)

SpecLife == InitLife /\ [][NextLife]_vars

\* C9: every handle acquired at construction is released exactly once: not
\* left unreleased once the object that acquired it is destroyed, and never
\* released a second time.
C9_ReleasedExactlyOnce ==
    \A h \in 1..Len(handles) :
        /\ handles[h].cleanups <= 1
        /\ owner[h] \in gone => handles[h].cleanups >= 1

(***************************************************************************)
(* SpecUpload: read_callback during one put.  The request is inside        *)
(* curl_easy_perform; the transport asks for size*nmemb >= 1 bytes at a    *)
(* time and, as long as the transfer lives, asks again.                    *)
(***************************************************************************)
UploadAlphabet == {"a", "b"}
UploadBodies == UNION {[1..k -> UploadAlphabet] : k \in 0..MaxBodyLen}
UploadSizes == (1..2) \X (1..MaxNmemb)

InitUpload ==
    /\ _user_pass = <<>> /\ lastAuth = [op |-> "none"]
    /\ \E url \in Urls, ctype \in Ctypes, data \in UploadBodies :
          /\ _curl = put_setopt(curl_easy_init, <<>>, url, ctype, data)
          /\ call = [api |-> "put", url |-> url, ctype |-> ctype, data |-> data]
          /\ up_obj = [data |-> data, length |-> Len(data)]
    /\ pc = "performing"
    /\ curlError = <<>> /\ perform_res = CURLE_OK /\ http_code = 0
    /\ result = NoResult
    /\ ret \in response
    /\ chunks = <<>> /\ lines = <<>> /\ sent = <<>> /\ cb = NoCb
    /\ TreeIdle /\ LifeIdle

NextUpload == \E sn \in UploadSizes : transport_read(sn[1], sn[2])

SpecUpload == InitUpload /\ [][NextUpload]_vars /\ WF_vars(NextUpload)

Min(a, b) == IF a < b THEN a ELSE b

\* Between calls: the cursor is Len(sent) bytes into the body, which with
\* the remaining length makes L; what was handed out is a prefix of the
\* body; the last call returned min(N, remaining) and took that much.
UploadState ==
    /\ up_obj.length >= 0
    /\ Len(sent) + up_obj.length = Len(call.data)
    /\ sent = SubSeq(call.data, 1, Len(sent))
    /\ up_obj.data = SubSeq(call.data, Len(sent) + 1, Len(call.data))
    /\ cb.fn = "read_callback" =>
          /\ cb.ret = Min(cb.size * cb.nmemb, cb.before)
          /\ up_obj.length = cb.before - cb.ret

\* One call: the bytes handed out are those at the cursor; once nothing
\* remains, a call returns 0 and changes neither the cursor nor the length.
UploadStep ==
    /\ cb'.fn = "read_callback"
    /\ cb'.before = up_obj.length
    /\ sent' = sent \o SubSeq(call.data, Len(sent) + 1, Len(sent) + cb'.ret)
    /\ up_obj.length = 0 => (cb'.ret = 0 /\ up_obj' = up_obj /\ sent' = sent)

UploadDone == sent = call.data /\ up_obj.length = 0

\* C11: for a body of length L and any requested sizes N >= 1, each call
\* copies and returns min(N, remaining) bytes from the cursor, so remaining
\* is never negative and cursor + remaining = L; the bytes handed out are a
\* prefix of the body; after finitely many calls all L bytes are
\* transferred, and every later call returns 0 and changes nothing.
C11_UploadCursor ==
    /\ []UploadState
    /\ [][UploadStep]_vars
    /\ <>[]UploadDone

C11_Witness ==
    /\ call.data = <<"a","b","a">>
    /\ UploadDone
    /\ cb.fn = "read_callback" /\ cb.before = 1 /\ cb.size * cb.nmemb = 4 /\ cb.ret = 1

====
